---------------------------- MODULE Spec2Model ----------------------------
(***************************************************************************)
(* nvidia-gpu-exporter: the collection-and-export pipeline.                *)
(*                                                                         *)
(*   metrics.rs   collect_metrics_impl: queries the NVML library and       *)
(*                builds a Metrics snapshot or returns an error.           *)
(*   exporter.rs  Exporter: the gauges of the registry; gather() collects, *)
(*                writes the gauges and returns the non-empty families.    *)
(*                                                                         *)
(* The NVML library is the environment: what each of its queries answers   *)
(* during one collection is an input (a record hw), drawn from bounded     *)
(* sets.  Gauge values are f64 in the code and naturals here: every value  *)
(* written is an integer reading (or 0, or 1).                             *)
(***************************************************************************)
EXTENDS Naturals, Sequences, FiniteSets, TLC

(***************************************************************************)
(* Bounds and input domains.                                               *)
(***************************************************************************)
\* Number of distinct driver versions the library may report.
NumVersions == 2

\* The physical GPUs that may be enumerated; a GPU's minor number is its id.
Gpus == {0, 1}

\* A driver version string, "525.116.04" and the like: the n-th one.
VersionString(n) == <<"driver", n>>

Versions == {VersionString(n) : n \in 1..NumVersions}

(***************************************************************************)
(* Results and options (Rust's Result<T, E> and Option<T>).  The error     *)
(* value is only logged by the code, so an error carries the name of the   *)
(* failed query and nothing else.                                          *)
(***************************************************************************)
Ok(v) == [ok |-> TRUE, val |-> v]

Err(q) == [ok |-> FALSE, val |-> q]

Some(v) == [some |-> TRUE, val |-> v]

None == [some |-> FALSE, val |-> 0]

\* Mutant: a failed query is recorded as the reading 0 instead of absence.
ResultOkOrZero(r) == IF r.ok THEN Some(r.val) ELSE Some(0)

\* Result::ok() followed by Option::map(f) with f the numeric cast.
ResultOk(r) == IF r.ok THEN Some(r.val) ELSE None

\* Mutant: a failed query is recorded as the reading 1.
ResultUnwrapOrOne(r, d) == IF r.ok THEN r.val ELSE 1

\* Result::unwrap_or
ResultUnwrapOr(r, d) == IF r.ok THEN r.val ELSE d

\* Option::unwrap_or
UnwrapOr(o, d) == IF o.some THEN o.val ELSE d

(***************************************************************************)
(* The NVML queries of one device, in the order collect_metrics_impl       *)
(* issues them.                                                            *)
(***************************************************************************)
IdentityQueries == <<"device_by_index", "uuid", "name", "minor_number">>

OptionalQueries == <<"clock_info_Graphics", "clock_info_SM", "clock_info_Memory", "max_clock_info_Graphics", "max_clock_info_SM", "max_clock_info_Memory", "power_management_limit", "power_management_limit_default", "performance_state", "current_pcie_link_gen", "current_pcie_link_width", "pcie_throughput_Send", "pcie_throughput_Receive", "encoder_utilization", "decoder_utilization", "total_ecc_errors_Corrected", "total_ecc_errors_Uncorrected", "running_compute_processes", "running_graphics_processes">>

DeviceQueries == IdentityQueries \o <<"temperature", "power_usage", "fan_speed", "memory_info", "utilization_rates">> \o OptionalQueries

Range(s) == {s[i] : i \in DOMAIN s}

\* Position of query q in the order of DeviceQueries.
QueryNo(q) == CHOOSE i \in DOMAIN DeviceQueries : DeviceQueries[i] = q

(***************************************************************************)
(* The library's answers.  GPU g at load level l answers query q with      *)
(* Answer(q, g, l) unless the query fails.  Readings differ from query to  *)
(* query, from GPU to GPU and from level to level.                         *)
(***************************************************************************)
Reading(q, g, l) == 100 * QueryNo(q) + 10 * g + l

Answer(q, g, l) ==
    CASE q = "device_by_index" -> g
      [] q = "uuid" -> <<"GPU", g>>
      [] q = "name" -> <<"NVIDIA", g>>
      [] q = "minor_number" -> g
      [] q = "memory_info" -> [total |-> Reading(q, g, 9), used |-> Reading(q, g, l), free |-> 9 - l]
      [] q = "utilization_rates" -> [gpu |-> Reading(q, g, l), memory |-> Reading(q, g, l) + 5]
      [] q \in {"encoder_utilization", "decoder_utilization"} -> [utilization |-> Reading(q, g, l), sampling_period |-> 1]
      [] q \in {"running_compute_processes", "running_graphics_processes"} -> [i \in 1..(QueryNo(q) - 25 + l) |-> [pid |-> i]]
      [] OTHER -> Reading(q, g, l)

\* The handle of GPU g at level l on which exactly the queries in failing fail.
HwDevice(g, l, failing) == [q \in Range(DeviceQueries) |-> IF q \in failing THEN Err(q) ELSE Ok(Answer(q, g, l))]

\* A library that initialises, reports version v and enumerates the handles hs.
HwUp(v, hs) == [init |-> Ok(TRUE), sys_driver_version |-> Ok(v), device_count |-> Ok(Len(hs)), device |-> hs]

\* The same library with its top-level query q ("init", "sys_driver_version" or "device_count") failing.
HwFail(h, q) == [h EXCEPT ![q] = Err(q)]

(***************************************************************************)
(* metrics.rs: collect_metrics_impl                                        *)
(***************************************************************************)
\* u32::to_string: the decimal digits of n.
RECURSIVE to_string(_)
to_string(n) == IF n < 10 THEN <<n>> ELSE to_string(n \div 10) \o <<n % 10>>

\* The body of the loop over the device indexes: Ok(Device) or the first error.
CollectDevice(h, index) ==
    IF ~h["device_by_index"].ok THEN h["device_by_index"]
    ELSE IF ~h["uuid"].ok THEN h["uuid"]
    ELSE IF ~h["name"].ok THEN h["name"]
    ELSE IF ~h["minor_number"].ok THEN h["minor_number"]
    ELSE IF ~h["temperature"].ok THEN h["temperature"]
    ELSE IF ~h["power_usage"].ok THEN h["power_usage"]
    ELSE IF ~h["memory_info"].ok THEN h["memory_info"]
    ELSE IF ~h["utilization_rates"].ok THEN h["utilization_rates"]
    ELSE Ok([index |-> to_string(index),
             minor_number |-> to_string(h["minor_number"].val),
             name |-> h["name"].val,
             uuid |-> h["uuid"].val,
             temperature |-> h["temperature"].val,
             power_usage |-> h["power_usage"].val,
             power_usage_average |-> h["power_usage"].val,
             fan_speed |-> ResultUnwrapOr(h["fan_speed"], 0),
             memory_total |-> h["memory_info"].val.total,
             memory_used |-> h["memory_info"].val.used,
             utilization_memory |-> h["utilization_rates"].val.memory,
             utilization_gpu |-> h["utilization_rates"].val.gpu,
             utilization_gpu_average |-> h["utilization_rates"].val.gpu,
             clock_graphics |-> ResultOk(h["clock_info_Graphics"]),
             clock_sm |-> ResultOk(h["clock_info_SM"]),
             clock_memory |-> ResultOk(h["clock_info_Memory"]),
             clock_graphics_max |-> ResultOk(h["max_clock_info_Graphics"]),
             clock_sm_max |-> ResultOk(h["max_clock_info_SM"]),
             clock_memory_max |-> ResultOk(h["max_clock_info_Memory"]),
             power_limit |-> ResultOk(h["power_management_limit"]),
             power_limit_default |-> ResultOk(h["power_management_limit_default"]),
             performance_state |-> ResultOk(h["performance_state"]),
             pcie_link_gen |-> ResultOk(h["current_pcie_link_gen"]),
             pcie_link_width |-> ResultOk(h["current_pcie_link_width"]),
             pcie_tx_throughput |-> ResultOk(h["pcie_throughput_Send"]),
             pcie_rx_throughput |-> ResultOk(h["pcie_throughput_Receive"]),
             encoder_utilization |-> IF h["encoder_utilization"].ok THEN Some(h["encoder_utilization"].val.utilization) ELSE None,
             decoder_utilization |-> IF h["decoder_utilization"].ok THEN Some(h["decoder_utilization"].val.utilization) ELSE None,
             ecc_errors_corrected |-> ResultOk(h["total_ecc_errors_Corrected"]),
             ecc_errors_uncorrected |-> ResultOk(h["total_ecc_errors_Uncorrected"]),
             compute_processes |-> IF h["running_compute_processes"].ok THEN Some(Len(h["running_compute_processes"].val)) ELSE None,
             graphics_processes |-> IF h["running_graphics_processes"].ok THEN Some(Len(h["running_graphics_processes"].val)) ELSE None])

\* Mutant: a device whose query fails is skipped and the loop goes on.
RECURSIVE CollectLoopSkip(_, _, _, _)
CollectLoopSkip(hw, index, device_count, devices) ==
    IF index >= device_count THEN Ok(devices)
    ELSE LET d == CollectDevice(hw.device[index + 1], index)
         IN  CollectLoopSkip(hw, index + 1, device_count, IF d.ok THEN Append(devices, d.val) ELSE devices)

\* Mutant: the loop ends at a device whose query fails and the devices read
\* so far are the snapshot.
RECURSIVE CollectLoopPartial(_, _, _, _)
CollectLoopPartial(hw, index, device_count, devices) ==
    IF index >= device_count THEN Ok(devices)
    ELSE LET d == CollectDevice(hw.device[index + 1], index)
         IN  IF d.ok THEN CollectLoopPartial(hw, index + 1, device_count, Append(devices, d.val)) ELSE Ok(devices)

\* for index in 0..device_count: push the device or return its error.
RECURSIVE CollectLoop(_, _, _, _)
CollectLoop(hw, index, device_count, devices) ==
    IF index >= device_count THEN Ok(devices)
    ELSE LET d == CollectDevice(hw.device[index + 1], index)
         IN  IF d.ok THEN CollectLoop(hw, index + 1, device_count, Append(devices, d.val)) ELSE d

\* Mutant: a failed driver-version query is papered over and the devices are read.
collect_metrics_impl_AnyVersion(hw) ==
    IF ~hw.init.ok THEN hw.init
    ELSE IF ~hw.device_count.ok THEN hw.device_count
    ELSE LET devices == CollectLoop(hw, 0, hw.device_count.val, <<>>)
         IN  IF devices.ok THEN Ok([version |-> <<"driver", 0>>, devices |-> devices.val]) ELSE devices

\* fn collect_metrics_impl() -> Result<Metrics>
collect_metrics_impl(hw) ==
    IF ~hw.init.ok THEN hw.init
    ELSE IF ~hw.sys_driver_version.ok THEN hw.sys_driver_version
    ELSE IF ~hw.device_count.ok THEN hw.device_count
    ELSE LET devices == CollectLoop(hw, 0, hw.device_count.val, <<>>)
         IN  IF devices.ok THEN Ok([version |-> hw.sys_driver_version.val, devices |-> devices.val]) ELSE devices

\* NvmlCollector::new().collect()
collect_metrics(hw) == collect_metrics_impl(hw)

(***************************************************************************)
(* exporter.rs: the Exporter.  A Gauge is its value.  A GaugeVec is the    *)
(* function from the label values of its children to their values: its     *)
(* DOMAIN is the set of label instances created so far.                    *)
(***************************************************************************)
NAMESPACE == "nvidia"

\* The GaugeVec fields keyed by the label minor, with the name given in Opts::new.
MinorVecs == <<
    [field |-> "fan_speed", name |-> "fanspeed"],
    [field |-> "memory_total", name |-> "memory_total"],
    [field |-> "memory_used", name |-> "memory_used"],
    [field |-> "power_usage", name |-> "power_usage"],
    [field |-> "power_usage_average", name |-> "power_usage_average"],
    [field |-> "temperatures", name |-> "temperatures"],
    [field |-> "utilization_gpu", name |-> "utilization_gpu"],
    [field |-> "utilization_gpu_average", name |-> "utilization_gpu_average"],
    [field |-> "utilization_memory", name |-> "utilization_memory"],
    [field |-> "clock_graphics", name |-> "clock_graphics_mhz"],
    [field |-> "clock_sm", name |-> "clock_sm_mhz"],
    [field |-> "clock_memory", name |-> "clock_memory_mhz"],
    [field |-> "clock_graphics_max", name |-> "clock_graphics_max_mhz"],
    [field |-> "clock_sm_max", name |-> "clock_sm_max_mhz"],
    [field |-> "clock_memory_max", name |-> "clock_memory_max_mhz"],
    [field |-> "power_limit", name |-> "power_limit_milliwatts"],
    [field |-> "power_limit_default", name |-> "power_limit_default_milliwatts"],
    [field |-> "performance_state", name |-> "performance_state"],
    [field |-> "pcie_link_gen", name |-> "pcie_link_generation"],
    [field |-> "pcie_link_width", name |-> "pcie_link_width"],
    [field |-> "pcie_tx_throughput", name |-> "pcie_tx_throughput_kb"],
    [field |-> "pcie_rx_throughput", name |-> "pcie_rx_throughput_kb"],
    [field |-> "encoder_utilization", name |-> "encoder_utilization"],
    [field |-> "decoder_utilization", name |-> "decoder_utilization"],
    [field |-> "ecc_errors_corrected", name |-> "ecc_errors_corrected_total"],
    [field |-> "ecc_errors_uncorrected", name |-> "ecc_errors_uncorrected_total"],
    [field |-> "compute_processes", name |-> "compute_processes"],
    [field |-> "graphics_processes", name |-> "graphics_processes"] >>

\* The Option<f64> fields of Device; each has a GaugeVec field of the same name.
OptionalFields == {"clock_graphics", "clock_sm", "clock_memory", "clock_graphics_max", "clock_sm_max", "clock_memory_max", "power_limit", "power_limit_default", "performance_state", "pcie_link_gen", "pcie_link_width", "pcie_tx_throughput", "pcie_rx_throughput", "encoder_utilization", "decoder_utilization", "ecc_errors_corrected", "ecc_errors_uncorrected", "compute_processes", "graphics_processes"}

\* A GaugeVec with no child yet.
EmptyVec == <<>>

\* Exporter::new: both gauges at 0.0, no GaugeVec has a child.
NewExporter ==
    [f \in {"up", "device_count"} |-> 0] @@ [f \in {"info", "device_info"} \cup {MinorVecs[i].field : i \in DOMAIN MinorVecs} |-> EmptyVec]

\* Gauge::set on the gauge g
GaugeSet(g, v) == v

\* Mutant: the child's value is added to (Gauge::add) instead of set.
VecAdd(vec, labels, v) == (labels :> (IF labels \in DOMAIN vec THEN vec[labels] + v ELSE v)) @@ vec

\* Mutant: setting a child drops the other children of the vector.
VecSetAlone(vec, labels, v) == (labels :> v)

\* GaugeVec::with_label_values(labels).set(v) on vec: the child is created when missing.
VecSet(vec, labels, v) == (labels :> v) @@ vec

(***************************************************************************)
(* exporter.rs: Exporter::gather, its first half: the match on the result  *)
(* of collect_metrics().  e is the Exporter before, the value is the       *)
(* Exporter after.                                                         *)
(***************************************************************************)
\* Mutant: an absent optional field is skipped instead of written as 0.
SetOptionalIfSome(vec, minor, o) == IF o.some THEN VecSet(vec, minor, o.val) ELSE vec

\* self.<field>.with_label_values(&[&device.minor_number]).set(device.<field>.unwrap_or(0.0))
SetOptional(vec, minor, o) == VecSet(vec, minor, UnwrapOr(o, 0))

\* The body of "for device in &data.devices".
SetDevice(e, device) ==
    LET minor == <<device.minor_number>>
    IN  [e EXCEPT
           !.device_info = VecSet(@, <<device.index, device.minor_number, device.uuid, device.name>>, 1),
           !.fan_speed = VecSet(@, minor, device.fan_speed),
           !.memory_total = VecSet(@, minor, device.memory_total),
           !.memory_used = VecSet(@, minor, device.memory_used),
           !.power_usage = VecSet(@, minor, device.power_usage),
           !.power_usage_average = VecSet(@, minor, device.power_usage_average),
           !.temperatures = VecSet(@, minor, device.temperature),
           !.utilization_gpu = VecSet(@, minor, device.utilization_gpu),
           !.utilization_gpu_average = VecSet(@, minor, device.utilization_gpu_average),
           !.utilization_memory = VecSet(@, minor, device.utilization_memory),
           !.clock_graphics = SetOptional(@, minor, device.clock_graphics),
           !.clock_sm = SetOptional(@, minor, device.clock_sm),
           !.clock_memory = SetOptional(@, minor, device.clock_memory),
           !.clock_graphics_max = SetOptional(@, minor, device.clock_graphics_max),
           !.clock_sm_max = SetOptional(@, minor, device.clock_sm_max),
           !.clock_memory_max = SetOptional(@, minor, device.clock_memory_max),
           !.power_limit = SetOptional(@, minor, device.power_limit),
           !.power_limit_default = SetOptional(@, minor, device.power_limit_default),
           !.performance_state = SetOptional(@, minor, device.performance_state),
           !.pcie_link_gen = SetOptional(@, minor, device.pcie_link_gen),
           !.pcie_link_width = SetOptional(@, minor, device.pcie_link_width),
           !.pcie_tx_throughput = SetOptional(@, minor, device.pcie_tx_throughput),
           !.pcie_rx_throughput = SetOptional(@, minor, device.pcie_rx_throughput),
           !.encoder_utilization = SetOptional(@, minor, device.encoder_utilization),
           !.decoder_utilization = SetOptional(@, minor, device.decoder_utilization),
           !.ecc_errors_corrected = SetOptional(@, minor, device.ecc_errors_corrected),
           !.ecc_errors_uncorrected = SetOptional(@, minor, device.ecc_errors_uncorrected),
           !.compute_processes = SetOptional(@, minor, device.compute_processes),
           !.graphics_processes = SetOptional(@, minor, device.graphics_processes)]

\* The loop "for device in &data.devices".
RECURSIVE SetDevices(_, _)
SetDevices(e, devices) == IF devices = <<>> THEN e ELSE SetDevices(SetDevice(e, Head(devices)), Tail(devices))

\* Mutant: the arm Ok(data) without self.up.set(1.0).
GatherOkNoUp(e, data) ==
    SetDevices([e EXCEPT !.info = VecSet(@, <<data.version>>, 1),
                         !.device_count = GaugeSet(@, Len(data.devices))], data.devices)

\* Mutant: the arm Ok(data) without the loop over data.devices.
GatherOkNoDevices(e, data) ==
    [e EXCEPT !.up = GaugeSet(@, 1),
              !.info = VecSet(@, <<data.version>>, 1),
              !.device_count = GaugeSet(@, Len(data.devices))]

\* The arm Ok(data).
GatherOk(e, data) ==
    SetDevices([e EXCEPT !.up = GaugeSet(@, 1),
                         !.info = VecSet(@, <<data.version>>, 1),
                         !.device_count = GaugeSet(@, Len(data.devices))], data.devices)

\* The label value written when NVML fails.
Unavailable == <<"unavailable", 0>>

\* Mutant: the arm Err(e) without the write of driver_info.
GatherErrNoInfo(e) ==
    [e EXCEPT !.up = GaugeSet(@, 0),
              !.device_count = GaugeSet(@, 0)]

\* Mutant: the arm Err(e) without self.device_count.set(0.0).
GatherErrStaleCount(e) ==
    [e EXCEPT !.up = GaugeSet(@, 0),
              !.info = VecSet(@, <<Unavailable>>, 1)]

\* Mutant: the arm Err(e) also sets every device-scoped series to 0.
GatherErrZeroDevices(e) ==
    [f \in DOMAIN e |->
        IF f \in {"up", "device_count"} THEN GaugeSet(e[f], 0)
        ELSE IF f = "info" THEN VecSet(e[f], <<Unavailable>>, 1)
        ELSE [l \in DOMAIN e[f] |-> 0]]

\* The arm Err(e).
GatherErr(e) ==
    [e EXCEPT !.up = GaugeSet(@, 0),
              !.device_count = GaugeSet(@, 0),
              !.info = VecSet(@, <<Unavailable>>, 1)]

\* Mutant: an error of the collection ends gather() before anything is written.
GatherSetOkOnly(e, r) == IF r.ok THEN GatherOk(e, r.val) ELSE e

\* match collect_metrics() { Ok(data) => ..., Err(e) => ... }
GatherSet(e, r) == IF r.ok THEN GatherOk(e, r.val) ELSE GatherErr(e)

(***************************************************************************)
(* The second half of gather: the families, in the order of the            *)
(* add_metrics calls.  A family is its name and its metrics, a function    *)
(* from label values to value.                                             *)
(***************************************************************************)
FqName(name) == <<NAMESPACE, name>>

\* Gauge::collect / GaugeVec::collect: one family, with one metric per child.
Collect(e, f, name) == [name |-> FqName(name), metric |-> IF f \in {"up", "device_count"} THEN [l \in {<<>>} |-> e[f]] ELSE e[f]]

CollectOrder ==
    << [field |-> "device_count", name |-> "device_count"],
       [field |-> "device_info", name |-> "info"],
       MinorVecs[1],
       [field |-> "info", name |-> "driver_info"] >>
    \o SubSeq(MinorVecs, 2, 6)
    \o << [field |-> "up", name |-> "up"] >>
    \o SubSeq(MinorVecs, 7, Len(MinorVecs))

\* Mutant: add_metrics pushes every family.
AddMetricsUnfiltered(mf) == TRUE

\* add_metrics: only the families that have at least one metric are pushed.
AddMetrics(mf) == DOMAIN mf.metric # {}

GatherFamilies(e) == SelectSeq([i \in DOMAIN CollectOrder |-> Collect(e, CollectOrder[i].field, CollectOrder[i].name)], AddMetrics)

(***************************************************************************)
(* main.rs: the HTTP server.  A response is its status, its headers and    *)
(* its body; a body is a sequence of lines.  The exposition text has, for  *)
(* each family, one block: the HELP and TYPE lines and the samples.        *)
(* Encoding and the conversion to a String fail when the environment says  *)
(* so: a fault is <<stage, at>>, with stage "none", "encode" (after at     *)
(* families were written to the buffer) or "from_utf8".                    *)
(***************************************************************************)
\* #[arg(long, default_value = "/metrics")] web_telemetry_path
DefaultTelemetryPath == "/metrics"

ContentType == "text/plain; version=0.0.4"

Min(a, b) == IF a < b THEN a ELSE b

\* The block of one family in the exposition text.
EncodeFamily(mf) == [help |-> mf.name, type |-> "gauge", samples |-> mf.metric]

\* encoder.encode(&metric_families, &mut buffer): its result and the buffer.
Encode(metric_families, fault) ==
    IF fault[1] = "encode"
    THEN [result |-> Err(<<"encode", fault[2]>>), buffer |-> [i \in 1..Min(fault[2], Len(metric_families)) |-> EncodeFamily(metric_families[i])]]
    ELSE [result |-> Ok(TRUE), buffer |-> [i \in DOMAIN metric_families |-> EncodeFamily(metric_families[i])]]

\* String::from_utf8(buffer)
FromUtf8(buffer, fault) == IF fault[1] = "from_utf8" THEN Err(<<"from_utf8", 0>>) ELSE Ok(buffer)

NoHeaders == <<>>

\* Response::builder().status(..).header(..).body(..)
Response(status, headers, body) == [status |-> status, headers |-> headers, body |-> body]

\* format!("Failed to encode metrics: {}", e) and its UTF-8 sibling.
ErrorBody(what, e) == <<[error |-> what, cause |-> e]>>

\* Mutant: a failure sends what the buffer holds, then the message.
MetricsHandlerFlush(metric_families, fault) ==
    LET enc == Encode(metric_families, fault)
    IN  IF ~enc.result.ok
        THEN Response(500, NoHeaders, enc.buffer \o ErrorBody("Failed to encode metrics", enc.result.val))
        ELSE LET body == FromUtf8(enc.buffer, fault)
             IN  IF body.ok
                 THEN Response(200, "Content-Type" :> ContentType, body.val)
                 ELSE Response(500, NoHeaders, enc.buffer \o ErrorBody("Failed to encode metrics as UTF-8", body.val))

\* Mutant: a text that is not UTF-8 is sent all the same.
MetricsHandlerLossy(metric_families, fault) ==
    LET enc == Encode(metric_families, fault)
    IN  IF ~enc.result.ok
        THEN Response(500, NoHeaders, ErrorBody("Failed to encode metrics", enc.result.val))
        ELSE Response(200, "Content-Type" :> ContentType, enc.buffer)

\* The handler of the telemetry route, from the families gather() returned.
MetricsHandler(metric_families, fault) ==
    LET enc == Encode(metric_families, fault)
    IN  IF ~enc.result.ok
        THEN Response(500, NoHeaders, ErrorBody("Failed to encode metrics", enc.result.val))
        ELSE LET body == FromUtf8(enc.buffer, fault)
             IN  IF body.ok
                 THEN Response(200, "Content-Type" :> ContentType, body.val)
                 ELSE Response(500, NoHeaders, ErrorBody("Failed to encode metrics as UTF-8", body.val))

\* The handler of the route "/": a static page with one link.
RootHandler == Response(200, "Content-Type" :> "text/html; charset=utf-8", <<[title |-> "NVIDIA GPU Exporter", href |-> "/metrics"]>>)

\* No route matches the path of the request.
NotFound == Response(404, NoHeaders, <<>>)

\* #[arg(long, default_value = "0.0.0.0:9445")] web_listen_address: an address
\* is <<the parts between the dots of its host, its port>>.
DefaultListenAddress == <<<<0, 0, 0, 0>>, 9445>>

\* args.web_listen_address.parse::<SocketAddr>(): four octets and a 16-bit port.
ParseSocketAddr(a) ==
    IF Len(a[1]) = 4 /\ (\A i \in 1..4 : a[1][i] < 256) /\ a[2] < 65536 THEN Ok(a) ELSE Err("AddrParseError")

\* The ports the operating system refuses to this process: taken or privileged.
RefusedPorts == {80}

\* Mutant: the listener is taken to be bound whatever the system answers.
BindAnyway(addr) == Ok(addr)

\* tokio::net::TcpListener::bind(addr)
Bind(addr) == IF addr[2] \in RefusedPorts THEN Err("AddrInUse") ELSE Ok(addr)

\* The server as started with --web-telemetry-path path, no request served.
\* state: where main() is ("parse", "bind", "serving" or "exited"); exit_code:
\* the status the process ended with, if it ended.
Started(path) ==
    [web_telemetry_path |-> path, request |-> "", fault |-> <<"none", 0>>, response |-> NotFound,
     web_listen_address |-> DefaultListenAddress, state |-> "serving", exit_code |-> None]

(***************************************************************************)
(* State.                                                                  *)
(*   exporter   the Exporter shared by all requests                        *)
(*   returned   whether a gather() has returned yet                        *)
(*   result     what collect_metrics() returned to the last gather()       *)
(*   repeated   whether the last two gather() calls got the same result    *)
(*   nvml       the environment: what the NVML library answers to the      *)
(*              queries of the scrape at hand                              *)
(*   scrape     the gather() calls of the requests served at the same      *)
(*              time, each with its position in gather(): pc, the library  *)
(*              it queries (hw), what collect_metrics() returned to it     *)
(*              (r), the number of devices it has written (dev), the       *)
(*              families it returned (out) and how often it has called     *)
(*              collect_metrics() (collects)                               *)
(*   http       the HTTP server: the telemetry path it was started with,   *)
(*              the path of the last GET, what went wrong in encoding its  *)
(*              answer (fault) and the response                            *)
(* Between two scrapes nothing writes the Exporter, so the families the    *)
(* last gather() returned are those of the Exporter's current content: mfs.*)
(***************************************************************************)
VARIABLES exporter, returned, result, repeated, nvml, scrape, http

vars == <<exporter, returned, result, repeated, nvml, scrape, http>>

\* The requests served at the same time, each on a worker thread of its own.
Requests == {1, 2}

\* A request that has not called gather() yet.
Idle == [pc |-> "idle", hw |-> HwUp(VersionString(1), <<>>), r |-> Err("none"), dev |-> 0, out |-> <<>>, collects |-> 0]

mfs == GatherFamilies(exporter)

\* Two results of collect_metrics() are the same.
SameResult(a, b) == a.ok = b.ok /\ a.val = b.val

\* The GPUs enumerated by one collection, in the order of their minor numbers.
Enumerations == {s \in UNION {[1..n -> Gpus] : n \in 0..Cardinality(Gpus)} : \A i, j \in DOMAIN s : i < j => s[i] < s[j]}

\* What a GPU may be during a scrape, as <<load level, queries that fail>>:
\* idle and fully readable, loaded with an unreadable fan, idle with no optional
\* capability supported.
Profiles == {<<1, {}>>, <<2, {"fan_speed"}>>, <<1, Range(OptionalQueries)>>}

HandleSeqs == UNION {{[i \in DOMAIN s |-> HwDevice(s[i], p[i][1], p[i][2])] : p \in [DOMAIN s -> Profiles]} : s \in Enumerations}

\* Enumerations in which a query the collection cannot do without fails: on the
\* first GPU, and on the second after the first was read.
FaultySeqs == {<<HwDevice(0, 1, {"memory_info"})>>, <<HwDevice(0, 2, {}), HwDevice(1, 1, {"temperature"})>>}

\* The library during one scrape.
HwInputs ==
    {HwUp(v, hs) : v \in Versions, hs \in HandleSeqs}
    \cup {HwUp(VersionString(1), hs) : hs \in FaultySeqs}
    \cup {HwFail(HwUp(VersionString(1), <<>>), "init")}

Init ==
    /\ exporter = NewExporter
    /\ returned = FALSE
    /\ result = Err("none")
    /\ repeated = FALSE
    /\ nvml = HwUp(VersionString(1), <<>>)
    /\ scrape = [p \in Requests |-> Idle]
    /\ http = Started(DefaultTelemetryPath)

\* One scrape: gather() from its call to its return, alone on the Exporter.
Gather(hw) ==
    LET r == collect_metrics(hw)
    IN  /\ exporter' = GatherSet(exporter, r)
        /\ result' = r
        /\ returned' = TRUE
        /\ repeated' = (returned /\ SameResult(result, r))
        /\ nvml' = hw
        /\ UNCHANGED scrape

Next == \E hw \in HwInputs : Gather(hw) /\ UNCHANGED http

Spec == Init /\ [][Next]_vars

(***************************************************************************)
(* The first scrape of a fresh Exporter, against a library in which any    *)
(* single query, or every optional one, may fail on each device, and in    *)
(* which initialisation, the version or the device count may fail.  The    *)
(* i-th enumerated GPU is at load level i.                                 *)
(***************************************************************************)
CollectFailSets == {{}} \cup {{q} : q \in Range(DeviceQueries)} \cup {Range(OptionalQueries)}

CollectHandleSeqs == UNION {{[i \in DOMAIN s |-> HwDevice(s[i], i, F[i])] : F \in [DOMAIN s -> CollectFailSets]} : s \in Enumerations}

TopLevelQueries == {"init", "sys_driver_version", "device_count"}

CollectInputs ==
    {HwUp(v, hs) : v \in Versions, hs \in CollectHandleSeqs}
    \cup {HwFail(HwUp(VersionString(1), hs), q) : q \in TopLevelQueries, hs \in {<<>>, <<HwDevice(0, 1, {})>>}}

InitCollect ==
    /\ exporter = NewExporter
    /\ returned = FALSE
    /\ result = Err("none")
    /\ repeated = FALSE
    /\ nvml \in CollectInputs
    /\ scrape = [p \in Requests |-> Idle]
    /\ http = Started(DefaultTelemetryPath)

FirstGather == ~returned /\ Gather(nvml) /\ UNCHANGED http

NextCollect == FirstGather

SpecCollect == InitCollect /\ [][NextCollect]_vars

(***************************************************************************)
(* Two requests on the telemetry path at the same time.  main() hands a    *)
(* clone of the one Exporter to the handler, clones share the gauges, and  *)
(* the runtime of #[tokio::main] runs handlers on several worker threads:  *)
(* the statements of two gather() calls interleave.  Nothing in gather()   *)
(* or collect_metrics() takes a lock.  A step is one statement of gather():*)
(* the call of collect_metrics(), its return, one set() on up, on          *)
(* driver_info or on device_count, the sets of one device, and the         *)
(* collect() calls that make the returned list.  In the code the sets of   *)
(* one device and the collect() calls are separate steps too: taking them  *)
(* as one step leaves out interleavings and adds none.                     *)
(***************************************************************************)
\* The answer of a query that never returns.
Never == [ok |-> FALSE, val |-> "never returns"]

\* collect_metrics() on the library hw never returns: it gets to a query
\* that never does.
Hangs(hw) ==
    \/ hw.init = Never
    \/ hw.init.ok /\ hw.sys_driver_version = Never
    \/ hw.init.ok /\ hw.sys_driver_version.ok /\ hw.device_count = Never
    \/ /\ hw.init.ok /\ hw.sys_driver_version.ok /\ hw.device_count.ok
       /\ \E k \in DOMAIN hw.device :
             /\ \E q \in Range(DeviceQueries) :
                   /\ hw.device[k][q] = Never
                   /\ \A n \in 1..(QueryNo(q) - 1) : hw.device[k][DeviceQueries[n]] # Never
                   /\ \A n \in 1..(QueryNo(q) - 1) : DeviceQueries[n] \in Range(OptionalQueries) \cup {"fan_speed"} \/ hw.device[k][DeviceQueries[n]].ok
             /\ \A i \in 1..(k - 1) : CollectDevice(hw.device[i], i - 1).ok /\ Never \notin Range(hw.device[i])

\* The library as the two racing scrapes may find it.
RaceInputs ==
    {HwFail(HwUp(VersionString(1), <<HwDevice(0, 1, {})>>), "init"),
     HwUp(VersionString(1), <<HwDevice(0, 1, {})>>),
     HwUp(VersionString(2), <<HwDevice(0, 2, {}), HwDevice(1, 1, {})>>)}

InitRace ==
    /\ exporter = NewExporter
    /\ returned = FALSE
    /\ result = Err("none")
    /\ repeated = FALSE
    /\ nvml = HwUp(VersionString(1), <<>>)
    /\ scrape = [p \in Requests |-> Idle]
    /\ http = Started(DefaultTelemetryPath)

\* gather() is called and calls collect_metrics(): NVML::init() begins.
CallGather(p, hw) ==
    /\ scrape[p].pc = "idle"
    /\ scrape' = [scrape EXCEPT ![p].pc = "collect_metrics", ![p].hw = hw, ![p].collects = @ + 1]
    /\ UNCHANGED <<exporter, returned, result, repeated, nvml, http>>

\* Mutant: a collect_metrics() that failed is called once more.
CollectMetricsRetried(p) ==
    /\ scrape[p].pc = "collect_metrics"
    /\ scrape' = IF ~collect_metrics(scrape[p].hw).ok /\ scrape[p].collects < 2
                 THEN [scrape EXCEPT ![p].collects = @ + 1]
                 ELSE [scrape EXCEPT ![p].pc = "up", ![p].r = collect_metrics(scrape[p].hw)]
    /\ UNCHANGED <<exporter, returned, result, repeated, nvml, http>>

\* Mutant: collect_metrics() takes a mutex, which a call that hangs keeps.
CollectMetricsReturnsLocked(p) ==
    /\ scrape[p].pc = "collect_metrics"
    /\ ~Hangs(scrape[p].hw)
    /\ \A q \in Requests \ {p} : ~(scrape[q].pc = "collect_metrics" /\ Hangs(scrape[q].hw))
    /\ scrape' = [scrape EXCEPT ![p].pc = "up", ![p].r = collect_metrics(scrape[p].hw)]
    /\ UNCHANGED <<exporter, returned, result, repeated, nvml, http>>

\* collect_metrics() returns, unless a query of it never does.
CollectMetricsReturns(p) ==
    /\ scrape[p].pc = "collect_metrics"
    /\ ~Hangs(scrape[p].hw)
    /\ scrape' = [scrape EXCEPT ![p].pc = "up", ![p].r = collect_metrics(scrape[p].hw)]
    /\ UNCHANGED <<exporter, returned, result, repeated, nvml, http>>

\* self.up.set(1.0) of the arm Ok, self.up.set(0.0) of the arm Err.
SetUp(p) ==
    /\ scrape[p].pc = "up"
    /\ exporter' = [exporter EXCEPT !.up = GaugeSet(@, IF scrape[p].r.ok THEN 1 ELSE 0)]
    /\ scrape' = [scrape EXCEPT ![p].pc = IF scrape[p].r.ok THEN "info" ELSE "device_count"]
    /\ UNCHANGED <<returned, result, repeated, nvml, http>>

\* self.info.with_label_values(..).set(1.0): second in the arm Ok, last in the arm Err.
SetInfo(p) ==
    /\ scrape[p].pc = "info"
    /\ exporter' = [exporter EXCEPT !.info = VecSet(@, <<IF scrape[p].r.ok THEN scrape[p].r.val.version ELSE Unavailable>>, 1)]
    /\ scrape' = [scrape EXCEPT ![p].pc = IF scrape[p].r.ok THEN "device_count" ELSE "families"]
    /\ UNCHANGED <<returned, result, repeated, nvml, http>>

\* self.device_count.set(..): third in the arm Ok, second in the arm Err.
SetDeviceCount(p) ==
    /\ scrape[p].pc = "device_count"
    /\ exporter' = [exporter EXCEPT !.device_count = GaugeSet(@, IF scrape[p].r.ok THEN Len(scrape[p].r.val.devices) ELSE 0)]
    /\ scrape' = [scrape EXCEPT ![p].pc = IF ~scrape[p].r.ok THEN "info" ELSE IF scrape[p].r.val.devices = <<>> THEN "families" ELSE "devices"]
    /\ UNCHANGED <<returned, result, repeated, nvml, http>>

\* One turn of the loop over data.devices.
SetNextDevice(p) ==
    /\ scrape[p].pc = "devices"
    /\ exporter' = SetDevice(exporter, scrape[p].r.val.devices[scrape[p].dev + 1])
    /\ scrape' = [scrape EXCEPT ![p].dev = @ + 1, ![p].pc = IF scrape[p].dev + 1 = Len(scrape[p].r.val.devices) THEN "families" ELSE "devices"]
    /\ UNCHANGED <<returned, result, repeated, nvml, http>>

\* The collect() calls: gather() returns mfs.
CollectFamilies(p) ==
    /\ scrape[p].pc = "families"
    /\ scrape' = [scrape EXCEPT ![p].pc = "done", ![p].out = GatherFamilies(exporter)]
    /\ UNCHANGED <<exporter, returned, result, repeated, nvml, http>>

NextRace ==
    \E p \in Requests :
        \/ \E hw \in RaceInputs : CallGather(p, hw)
        \/ CollectMetricsReturns(p)
        \/ SetUp(p)
        \/ SetInfo(p)
        \/ SetDeviceCount(p)
        \/ SetNextDevice(p)
        \/ CollectFamilies(p)

SpecRace == InitRace /\ [][NextRace]_vars

(***************************************************************************)
(* Two requests at the same time on a library that may hang: NVML::init()  *)
(* or the temperature query of its one device never returns.  Each         *)
(* gather() runs on a worker thread of its own, which the system keeps     *)
(* running: a statement a call can execute is executed in the end.         *)
(***************************************************************************)
HangInputs ==
    {[HwUp(VersionString(1), <<HwDevice(0, 1, {})>>) EXCEPT !.init = Never],
     HwUp(VersionString(1), <<[HwDevice(0, 1, {}) EXCEPT !["temperature"] = Never]>>)}

\* A statement of the gather() call of request p.
GatherStep(p) ==
    \/ CollectMetricsReturns(p)
    \/ SetUp(p)
    \/ SetInfo(p)
    \/ SetDeviceCount(p)
    \/ SetNextDevice(p)
    \/ CollectFamilies(p)

NextHang ==
    \E p \in Requests :
        \/ \E hw \in RaceInputs \cup HangInputs : CallGather(p, hw)
        \/ GatherStep(p)

SpecHang == InitRace /\ [][NextHang]_vars /\ \A p \in Requests : WF_vars(GatherStep(p))

(***************************************************************************)
(* The server answering one GET after the other.  It is started with a     *)
(* telemetry path; a GET on that path runs gather() and the telemetry      *)
(* handler, a GET on "/" the root handler, any other GET finds no route.   *)
(* (Started with "/" as telemetry path the router refuses the second       *)
(* route: that configuration serves nothing and is left out.)              *)
(***************************************************************************)
TelemetryPaths == {DefaultTelemetryPath, "/gpu"}

RequestPaths == TelemetryPaths \cup {"/", "/favicon.ico"}

Faults == {<<"none", 0>>, <<"encode", 0>>, <<"encode", 2>>, <<"from_utf8", 0>>}

\* The library as the scrapes of this server may find it.
HttpInputs ==
    RaceInputs \cup {HwUp(VersionString(1), <<HwDevice(1, 1, {"fan_speed"})>>), HwUp(VersionString(1), <<>>), HwUp(VersionString(1), <<HwDevice(0, 1, {}), HwDevice(1, 2, {"temperature"})>>)}

InitHttp ==
    /\ exporter = NewExporter
    /\ returned = FALSE
    /\ result = Err("none")
    /\ repeated = FALSE
    /\ nvml = HwUp(VersionString(1), <<>>)
    /\ scrape = [p \in Requests |-> Idle]
    /\ \E path \in TelemetryPaths : http = Started(path)

\* GET on the telemetry path.
GetTelemetry(hw, fault) ==
    /\ http.state = "serving"
    /\ Gather(hw)
    /\ http' = [http EXCEPT !.request = http.web_telemetry_path, !.fault = fault,
                            !.response = MetricsHandler(GatherFamilies(GatherSet(exporter, collect_metrics(hw))), fault)]

\* GET /
GetRoot ==
    /\ http.state = "serving"
    /\ http.web_telemetry_path # "/"
    /\ http' = [http EXCEPT !.request = "/", !.fault = <<"none", 0>>, !.response = RootHandler]
    /\ UNCHANGED <<exporter, returned, result, repeated, nvml, scrape>>

\* GET on a path without a route.
GetOther(path) ==
    /\ http.state = "serving"
    /\ path \notin {http.web_telemetry_path, "/"}
    /\ http' = [http EXCEPT !.request = path, !.fault = <<"none", 0>>, !.response = NotFound]
    /\ UNCHANGED <<exporter, returned, result, repeated, nvml, scrape>>

NextHttp ==
    \/ \E hw \in HttpInputs, fault \in Faults : GetTelemetry(hw, fault)
    \/ GetRoot
    \/ \E path \in RequestPaths : GetOther(path)

SpecHttp == InitHttp /\ [][NextHttp]_vars

(***************************************************************************)
(* main() from its start: the listen address is parsed, the listener is    *)
(* bound, then requests are served.  An Err at `?` makes main() return it: *)
(* the process ends with status 1.                                         *)
(***************************************************************************)
\* The default, a port the system refuses, a host that is not an IP
\* address, and a port that is no port.
ListenAddresses == {DefaultListenAddress, <<<<127, 0, 0, 1>>, 80>>, <<<<256, 0, 0, 1>>, 9445>>, <<<<10, 0, 0>>, 9445>>, <<<<0, 0, 0, 0>>, 65536>>}

InitMain ==
    /\ exporter = NewExporter
    /\ returned = FALSE
    /\ result = Err("none")
    /\ repeated = FALSE
    /\ nvml = HwUp(VersionString(1), <<>>)
    /\ scrape = [p \in Requests |-> Idle]
    /\ \E path \in TelemetryPaths, a \in ListenAddresses :
          http = [Started(path) EXCEPT !.web_listen_address = a, !.state = "parse"]

\* let addr: SocketAddr = args.web_listen_address.parse()?;
ParseAddress ==
    /\ http.state = "parse"
    /\ http' = IF ParseSocketAddr(http.web_listen_address).ok
               THEN [http EXCEPT !.state = "bind"]
               ELSE [http EXCEPT !.state = "exited", !.exit_code = Some(1)]
    /\ UNCHANGED <<exporter, returned, result, repeated, nvml, scrape>>

\* let listener = tokio::net::TcpListener::bind(addr).await?; axum::serve(..)
BindListener ==
    /\ http.state = "bind"
    /\ http' = IF Bind(ParseSocketAddr(http.web_listen_address).val).ok
               THEN [http EXCEPT !.state = "serving"]
               ELSE [http EXCEPT !.state = "exited", !.exit_code = Some(1)]
    /\ UNCHANGED <<exporter, returned, result, repeated, nvml, scrape>>

NextMain ==
    \/ ParseAddress
    \/ BindListener
    \/ \E hw \in HttpInputs, fault \in Faults : GetTelemetry(hw, fault)
    \/ GetRoot
    \/ \E path \in RequestPaths : GetOther(path)

SpecMain == InitMain /\ [][NextMain]_vars

(***************************************************************************)
(* Reading the families a gather() returned.                               *)
(***************************************************************************)
HasFamily(fams, name) == \E i \in DOMAIN fams : fams[i].name = FqName(name)

\* The metrics of the family called name: label values -> value.
Metric(fams, name) == fams[CHOOSE i \in DOMAIN fams : fams[i].name = FqName(name)].metric

\* The value of the gauge (a family without labels) called name.
GaugeValue(fams, name) == Metric(fams, name)[<<>>]

\* The device-scoped families: nvidia_info and those keyed by the label minor.
MinorFamilyNames == {MinorVecs[i].name : i \in DOMAIN MinorVecs}

DeviceFamilyNames == {"info"} \cup MinorFamilyNames

\* The value of the label minor in the label values of a device-scoped family.
MinorLabel(name, labels) == IF name = "info" THEN labels[2] ELSE labels[1]

\* The minor numbers of the snapshot data.
SnapshotMinors(data) == {data.devices[i].minor_number : i \in DOMAIN data.devices}

\* An earlier scrape succeeded with at least one device.
SawDevices == DOMAIN exporter.device_info # {}

\* An earlier scrape failed.
SawFailure == <<Unavailable>> \in DOMAIN exporter.info

(***************************************************************************)
(* C1: every gather(), whether collect failed or not and whatever came     *)
(* before, returns the families nvidia_up, nvidia_device_count and         *)
(* nvidia_driver_info, each with at least one instance.                    *)
(***************************************************************************)
C1_CoreFamiliesAlwaysPresent ==
    returned => \A name \in {"up", "device_count", "driver_info"} :
                    /\ HasFamily(mfs, name)
                    /\ DOMAIN Metric(mfs, name) # {}

\* A failed scrape after a scrape that saw devices.
C1_Witness == returned /\ ~result.ok /\ SawDevices

(***************************************************************************)
(* C2: a gather() whose collect fails reports up = 0, device_count = 0     *)
(* and driver_info{version="unavailable"} = 1.                             *)
(***************************************************************************)
C2_FailureReportsDegraded ==
    (returned /\ ~result.ok) =>
        /\ GaugeValue(mfs, "up") = 0
        /\ GaugeValue(mfs, "device_count") = 0
        /\ <<Unavailable>> \in DOMAIN Metric(mfs, "driver_info")
        /\ Metric(mfs, "driver_info")[<<Unavailable>>] = 1

\* A failed scrape on an Exporter that earlier reported devices and a driver version.
C2_Witness == returned /\ ~result.ok /\ SawDevices /\ exporter.info # (<<Unavailable>> :> 1)

(***************************************************************************)
(* C3: a gather() whose collect fails returns no device-scoped family,     *)
(* whatever earlier scrapes returned.                                      *)
(***************************************************************************)
C3_FailureHasNoDeviceFamily ==
    (returned /\ ~result.ok) => \A name \in DeviceFamilyNames : ~HasFamily(mfs, name)

(***************************************************************************)
(* C4: what a gather() returns depends only on the result of its collect:  *)
(* an Exporter with any scrape history returns what a fresh Exporter       *)
(* returns for the same result.                                            *)
(***************************************************************************)
C4_OutputIndependentOfHistory ==
    returned => mfs = GatherFamilies(GatherSet(NewExporter, result))

(***************************************************************************)
(* C5: a gather() whose collect succeeds with version v and N devices      *)
(* reports up = 1, device_count = N and driver_info{version=v} = 1, also   *)
(* after failed scrapes.                                                   *)
(***************************************************************************)
C5_SuccessReportsHealthy ==
    (returned /\ result.ok) =>
        /\ GaugeValue(mfs, "up") = 1
        /\ GaugeValue(mfs, "device_count") = Len(result.val.devices)
        /\ <<result.val.version>> \in DOMAIN Metric(mfs, "driver_info")
        /\ Metric(mfs, "driver_info")[<<result.val.version>>] = 1

\* A successful scrape with devices on an Exporter that went through a failure.
C5_Witness == returned /\ result.ok /\ Len(result.val.devices) >= 1 /\ SawFailure

(***************************************************************************)
(* C6: after a successful collect with N devices, every device-scoped      *)
(* family in the output has exactly N instances, whose minor labels are    *)
(* the minor numbers of that snapshot.                                     *)
(***************************************************************************)
C6_InstancesAreTheSnapshotsDevices ==
    (returned /\ result.ok) =>
        \A i \in DOMAIN mfs : \A name \in DeviceFamilyNames :
            mfs[i].name = FqName(name) =>
                /\ Cardinality(DOMAIN mfs[i].metric) = Len(result.val.devices)
                /\ {MinorLabel(name, l) : l \in DOMAIN mfs[i].metric} = SnapshotMinors(result.val)

(***************************************************************************)
(* C7: nvidia_driver_info has exactly one instance in every output:        *)
(* "unavailable" after a failed collect, the snapshot's version after a    *)
(* successful one.                                                         *)
(***************************************************************************)
C7_OneDriverInfoInstance ==
    returned => DOMAIN Metric(mfs, "driver_info") = {<<IF result.ok THEN result.val.version ELSE Unavailable>>}

(***************************************************************************)
(* C8: for every device of a successful snapshot and every optional        *)
(* measurement, the output has an instance of the measurement's family     *)
(* labelled with the device's minor number, whose value is the measurement *)
(* when present and 0 when absent.                                         *)
(***************************************************************************)
C8_OptionalAbsentIsZero ==
    (returned /\ result.ok) =>
        \A i \in DOMAIN result.val.devices : \A k \in DOMAIN MinorVecs :
            MinorVecs[k].field \in OptionalFields =>
                LET device == result.val.devices[i]
                    o == device[MinorVecs[k].field]
                    name == MinorVecs[k].name
                IN  /\ HasFamily(mfs, name)
                    /\ <<device.minor_number>> \in DOMAIN Metric(mfs, name)
                    /\ Metric(mfs, name)[<<device.minor_number>>] = (IF o.some THEN o.val ELSE 0)

\* A snapshot with a device that lacks the optional fields and one that has them.
C8_Witness ==
    /\ returned /\ result.ok
    /\ \E i, j \in DOMAIN result.val.devices :
          /\ ~result.val.devices[i].clock_graphics.some
          /\ result.val.devices[j].clock_graphics.some

(***************************************************************************)
(* C9: two consecutive gather() calls whose collect returns the same       *)
(* result return the same families, instances and values.                  *)
(***************************************************************************)
C9_Idempotent == [][(returned /\ SameResult(result, result')) => mfs' = mfs]_vars

\* A second scrape with the same two-device snapshot as the one before.
C9_Witness == repeated /\ result.ok /\ Len(result.val.devices) = 2

(***************************************************************************)
(* C10: if the query of a mandatory measurement or of an identity field    *)
(* fails for any enumerated device, collect returns an error and no        *)
(* snapshot, and the scrape is Degraded.                                   *)
(***************************************************************************)
\* The library initialised and enumerated its devices.
Enumerated == nvml.init.ok /\ nvml.sys_driver_version.ok /\ nvml.device_count.ok

\* Some enumerated device fails one of the queries qs.
SomeDeviceFails(qs) == Enumerated /\ \E i \in DOMAIN nvml.device : \E q \in qs : ~nvml.device[i][q].ok

\* The scrape is Degraded: collect gave an error, the output says up = 0.
Degraded == ~result.ok /\ GaugeValue(mfs, "up") = 0 /\ GaugeValue(mfs, "device_count") = 0

\* The queries behind temperature, power_usage, memory_total/memory_used and
\* utilization_gpu/utilization_memory, and behind uuid, name and minor number.
StrictQueries == {"temperature", "power_usage", "memory_info", "utilization_rates", "uuid", "name", "minor_number"}

\* The claim as made: fan_speed counts among the mandatory measurements.
C10_MandatoryFailureAborts_Original ==
    (returned /\ SomeDeviceFails(StrictQueries \cup {"fan_speed"})) => Degraded

\* The claim as amended: every mandatory or identity query but fan_speed.
C10_MandatoryFailureAborts ==
    (returned /\ SomeDeviceFails(StrictQueries)) => Degraded

\* The second device fails a mandatory query after the first was read in full.
C10_Witness ==
    /\ returned /\ Enumerated /\ Len(nvml.device) = 2
    /\ \A q \in Range(DeviceQueries) : nvml.device[1][q].ok
    /\ ~nvml.device[2]["utilization_rates"].ok


(***************************************************************************)
(* C11: a failure of an optional-capability query on a device never makes  *)
(* collect return an error and never drops the device: the device is in    *)
(* the snapshot with that field absent and every other field as queried.   *)
(***************************************************************************)
\* The queries collect_metrics_impl ends the collection on: those under `?`.
TryQueries == {"device_by_index", "uuid", "name", "minor_number", "temperature", "power_usage", "memory_info", "utilization_rates"}

\* The optional fields of a Device with the query each one is read by.
OptionalFieldQuery ==
    [clock_graphics |-> "clock_info_Graphics", clock_sm |-> "clock_info_SM", clock_memory |-> "clock_info_Memory",
     clock_graphics_max |-> "max_clock_info_Graphics", clock_sm_max |-> "max_clock_info_SM", clock_memory_max |-> "max_clock_info_Memory",
     power_limit |-> "power_management_limit", power_limit_default |-> "power_management_limit_default",
     performance_state |-> "performance_state", pcie_link_gen |-> "current_pcie_link_gen", pcie_link_width |-> "current_pcie_link_width",
     pcie_tx_throughput |-> "pcie_throughput_Send", pcie_rx_throughput |-> "pcie_throughput_Receive",
     encoder_utilization |-> "encoder_utilization", decoder_utilization |-> "decoder_utilization",
     ecc_errors_corrected |-> "total_ecc_errors_Corrected", ecc_errors_uncorrected |-> "total_ecc_errors_Uncorrected",
     compute_processes |-> "running_compute_processes", graphics_processes |-> "running_graphics_processes"]

\* The number an optional field takes from the answer a to its query q.
Observed(q, a) ==
    CASE q \in {"encoder_utilization", "decoder_utilization"} -> a.utilization
      [] q \in {"running_compute_processes", "running_graphics_processes"} -> Len(a)
      [] OTHER -> a

\* Device d of a snapshot holds what the handle h answered: an optional field
\* is absent exactly when its query failed, every other field is as queried.
AsQueried(d, h) ==
    /\ \A f \in DOMAIN OptionalFieldQuery :
          LET q == OptionalFieldQuery[f]
          IN  d[f] = IF h[q].ok THEN Some(Observed(q, h[q].val)) ELSE None
    /\ d.uuid = h["uuid"].val
    /\ d.name = h["name"].val
    /\ d.minor_number = to_string(h["minor_number"].val)
    /\ d.temperature = h["temperature"].val
    /\ d.power_usage = h["power_usage"].val
    /\ d.memory_total = h["memory_info"].val.total
    /\ d.memory_used = h["memory_info"].val.used
    /\ d.utilization_gpu = h["utilization_rates"].val.gpu
    /\ d.utilization_memory = h["utilization_rates"].val.memory
    /\ h["fan_speed"].ok => d.fan_speed = h["fan_speed"].val

C11_OptionalFailureNeverAborts ==
    (returned /\ Enumerated /\ ~SomeDeviceFails(TryQueries)) =>
        /\ result.ok
        /\ Len(result.val.devices) = Len(nvml.device)
        /\ \A i \in DOMAIN nvml.device : AsQueried(result.val.devices[i], nvml.device[i])

\* Two devices were enumerated; the first answers everything, the second
\* cannot tell its performance state: both are in the snapshot.
C11_Witness ==
    /\ returned /\ Enumerated /\ Len(nvml.device) = 2
    /\ {q \in Range(DeviceQueries) : ~nvml.device[2][q].ok} = {"performance_state"}
    /\ \A q \in Range(DeviceQueries) : nvml.device[1][q].ok
    /\ result.ok /\ Len(result.val.devices) = 2
    /\ result.val.devices[2].performance_state = None


(***************************************************************************)
(* The calls collect_metrics_impl makes to the library, in order: a call   *)
(* on the library is <<"nvml", query>>, a call for or on the device at an  *)
(* index is <<"device", index, query>>.                                    *)
(***************************************************************************)
\* The calls on one device from its n-th query on: a failing query under `?`
\* is the last one.
RECURSIVE DeviceCalls(_, _, _)
DeviceCalls(h, index, n) ==
    IF n > Len(DeviceQueries) THEN <<>>
    ELSE LET q == DeviceQueries[n]
         IN  <<<<"device", index, q>>>> \o (IF q \in TryQueries /\ ~h[q].ok THEN <<>> ELSE DeviceCalls(h, index, n + 1))

\* The calls of the loop from an index on: it ends with the first device
\* whose record cannot be made.
RECURSIVE LoopCalls(_, _, _)
LoopCalls(hw, index, device_count) ==
    IF index >= device_count THEN <<>>
    ELSE DeviceCalls(hw.device[index + 1], index, 1)
         \o (IF CollectDevice(hw.device[index + 1], index).ok THEN LoopCalls(hw, index + 1, device_count) ELSE <<>>)

Calls(hw) ==
    <<<<"nvml", "init">>>> \o
    (IF ~hw.init.ok THEN <<>>
     ELSE <<<<"nvml", "sys_driver_version">>>> \o
          (IF ~hw.sys_driver_version.ok THEN <<>>
           ELSE <<<<"nvml", "device_count">>>> \o
                (IF ~hw.device_count.ok THEN <<>> ELSE LoopCalls(hw, 0, hw.device_count.val))))

\* The calls the last scrape made.
DeviceCallsMade == {c \in Range(Calls(nvml)) : c[1] = "device"}

(***************************************************************************)
(* C12: if the library's initialisation, the driver-version query or the   *)
(* device-count query fails, collect returns an error before any device    *)
(* is queried, and the scrape is Degraded.                                 *)
(***************************************************************************)
C12_SourceUnavailableAborts ==
    (returned /\ ~Enumerated) => (~result.ok /\ DeviceCallsMade = {} /\ Degraded)

\* The library initialised and has a device, but cannot tell its version.
C12_Witness ==
    /\ returned /\ nvml.init.ok /\ ~nvml.sys_driver_version.ok
    /\ Len(nvml.device) = 1 /\ nvml.device_count.ok
    /\ ~result.ok


(***************************************************************************)
(* C13: gather returns normally with a family list for every outcome of    *)
(* collect: whichever query fails, at whichever point of the collection,   *)
(* the error is turned into the output (up = 0 with the scalar families)   *)
(* and does not leave gather as an error or a panic.                       *)
(***************************************************************************)
\* Some query of the scrape at hand fails.
SomeQueryFails ==
    \/ \E q \in TopLevelQueries : ~nvml[q].ok
    \/ \E i \in DOMAIN nvml.device : \E q \in Range(DeviceQueries) : ~nvml.device[i][q].ok

C13_GatherAlwaysReturns ==
    returned =>
        /\ \A name \in {"up", "device_count", "driver_info"} : HasFamily(mfs, name)
        /\ \A i \in DOMAIN mfs : DOMAIN mfs[i].metric # {}
        /\ GaugeValue(mfs, "up") = IF result.ok THEN 1 ELSE 0

\* The collection broke off at the temperature of the second device, after
\* the first was read: gather returned the scalar families.
C13_Witness ==
    /\ returned /\ SomeQueryFails
    /\ ~result.ok /\ result.val = "temperature"
    /\ Len(nvml.device) = 2
    /\ HasFamily(mfs, "up") /\ GaugeValue(mfs, "up") = 0


(***************************************************************************)
(* Two racing scrapes compared with scrapes that run one after the other.  *)
(***************************************************************************)
\* The other request.
Other(p) == CHOOSE q \in Requests : q # p

\* collect_metrics() has returned to request p.
HasResult(p) == scrape[p].pc \notin {"idle", "collect_metrics"}

\* The Exporter after the gather() of request p alone, and after the
\* gather() of p that follows all of the gather() of q.
Alone(p) == GatherSet(NewExporter, scrape[p].r)

After(p, q) == GatherSet(GatherSet(NewExporter, scrape[q].r), scrape[p].r)

(***************************************************************************)
(* C14: when gather() calls run concurrently on the shared Exporter, the   *)
(* families each call returns reflect one single snapshot: they are what   *)
(* the call returns when it runs with no other call in between its         *)
(* statements, never a mixture of its own result and another call's.       *)
(***************************************************************************)
C14_ReturnedFamiliesAreOneSnapshot ==
    \A p \in Requests :
        scrape[p].pc = "done" =>
            \/ scrape[p].out = GatherFamilies(Alone(p))
            \/ HasResult(Other(p)) /\ scrape[p].out = GatherFamilies(After(p, Other(p)))

(***************************************************************************)
(* C15: after two racing gather() calls have both completed, the values    *)
(* the registry holds are those one of the two calls wrote, as if the      *)
(* winner had run after the other; never some series of one call's         *)
(* snapshot with other series of the other call's.                         *)
(***************************************************************************)
C15_RegistryHoldsOneWinner ==
    (\A p \in Requests : scrape[p].pc = "done") =>
        \E p \in Requests : exporter = After(p, Other(p))

(***************************************************************************)
(* C16: access to the library is serialized: two collect_metrics() calls   *)
(* of two scrapes are never in progress at the same time.                  *)
(***************************************************************************)
C16_SourceAccessSerialized ==
    ~(\A p \in Requests : scrape[p].pc = "collect_metrics")

(***************************************************************************)
(* C17: in the output of every gather() call, also of calls that run       *)
(* concurrently on the same Exporter, up = 0 implies device_count = 0.     *)
(***************************************************************************)
C17_DownMeansNoDevices ==
    \A p \in Requests :
        scrape[p].pc = "done" =>
            (GaugeValue(scrape[p].out, "up") = 0 => GaugeValue(scrape[p].out, "device_count") = 0)


(***************************************************************************)
(* Reading the last response of the server.                                *)
(***************************************************************************)
\* The last GET was on the telemetry path.
TelemetryAnswered == http.request = http.web_telemetry_path

\* Encoding and conversion to UTF-8 both succeeded.
Encoded == http.fault[1] = "none"

\* The response carries the header name with the value.
HasHeader(name, value) == name \in DOMAIN http.response.headers /\ http.response.headers[name] = value

(***************************************************************************)
(* C18: a GET on the telemetry path answers 200 with the header            *)
(* Content-Type: text/plain; version=0.0.4 exactly when encoding and the   *)
(* conversion to UTF-8 both succeed, whatever the state of the hardware (a *)
(* Degraded scrape answers 200 too), and 500 when either fails.            *)
(***************************************************************************)
C18_StatusFollowsEncoding ==
    TelemetryAnswered =>
        /\ Encoded <=> (http.response.status = 200 /\ HasHeader("Content-Type", ContentType))
        /\ ~Encoded <=> http.response.status = 500

\* A Degraded scrape whose text was encoded: answered 200.
C18_Witness ==
    /\ TelemetryAnswered /\ Encoded
    /\ returned /\ ~result.ok /\ GaugeValue(mfs, "up") = 0
    /\ http.response.status = 200

(***************************************************************************)
(* C19: the telemetry handler encodes into a buffer before it produces a   *)
(* response: when encoding or the conversion to UTF-8 fails, the body is   *)
(* the error message alone, with no part of the text encoded so far.       *)
(***************************************************************************)
C19_FailureBodyIsOnlyTheMessage ==
    (TelemetryAnswered /\ ~Encoded) =>
        /\ Len(http.response.body) = 1
        /\ DOMAIN http.response.body[1] = {"error", "cause"}
        /\ \A i \in DOMAIN mfs : EncodeFamily(mfs[i]) \notin Range(http.response.body)

\* Encoding failed after two families were written to the buffer.
C19_Witness ==
    /\ TelemetryAnswered /\ http.fault = <<"encode", 2>>
    /\ Len(mfs) > 2
    /\ http.response.status = 500

(***************************************************************************)
(* C20: for every configured telemetry path, the page served at GET /      *)
(* links to that path: its link leads to the route that serves the         *)
(* metrics.                                                                *)
(***************************************************************************)
C20_RootPageLinksToTelemetryPath ==
    http.request = "/" =>
        /\ http.response.status = 200
        /\ \E i \in DOMAIN http.response.body : http.response.body[i].href = http.web_telemetry_path


(***************************************************************************)
(* C21: whenever the output of a gather() reports device_count > 0, all 29 *)
(* device-scoped families are in that output: nvidia_info, the 9 mandatory *)
(* and the 19 optional per-device families, under the names listed in      *)
(* test_all_expected_metrics_present.                                      *)
(***************************************************************************)
\* The names the test expects when device_count > 0.
device_metrics ==
    {"info", "temperatures", "fanspeed", "memory_total", "memory_used", "utilization_memory", "utilization_gpu",
     "utilization_gpu_average", "power_usage", "power_usage_average", "power_limit_milliwatts",
     "power_limit_default_milliwatts", "clock_graphics_mhz", "clock_sm_mhz", "clock_memory_mhz",
     "clock_graphics_max_mhz", "clock_sm_max_mhz", "clock_memory_max_mhz", "performance_state",
     "pcie_link_generation", "pcie_link_width", "pcie_tx_throughput_kb", "pcie_rx_throughput_kb",
     "encoder_utilization", "decoder_utilization", "ecc_errors_corrected_total", "ecc_errors_uncorrected_total",
     "compute_processes", "graphics_processes"}

C21_DeviceFamiliesPresent ==
    (returned /\ GaugeValue(mfs, "device_count") > 0) =>
        /\ Cardinality(device_metrics) = 29
        /\ \A name \in device_metrics : HasFamily(mfs, name)

\* The first scrape that found a device found one without any optional
\* capability: its 19 optional families are in the output all the same.
C21_Witness ==
    /\ returned /\ result.ok /\ Len(result.val.devices) = 1
    /\ GaugeValue(mfs, "device_count") = 1
    /\ \A f \in DOMAIN OptionalFieldQuery : result.val.devices[1][f] = None
    /\ Cardinality(DOMAIN exporter.device_info) = 1
    /\ \A name \in device_metrics : HasFamily(mfs, name)


(***************************************************************************)
(* C22: if the listen address cannot be parsed or the listener cannot be   *)
(* bound, the process ends with an error (a non-zero status) at startup    *)
(* and never serves a request.                                             *)
(***************************************************************************)
\* The listen address does not parse, or the system refuses its port.
CannotListen ==
    \/ ~ParseSocketAddr(http.web_listen_address).ok
    \/ http.web_listen_address[2] \in RefusedPorts

C22_StartupFailureIsFatal ==
    CannotListen =>
        /\ http.state \in {"parse", "bind", "exited"}
        /\ http.request = ""
        /\ http.state = "exited" => (http.exit_code.some /\ http.exit_code.val # 0)
        /\ http.state = "parse" => (ENABLED ParseAddress /\ ~ENABLED BindListener)
        /\ http.state = "bind" => ENABLED BindListener

\* The address parsed, the bind was refused: the process is gone.
C22_Witness ==
    /\ ParseSocketAddr(http.web_listen_address).ok
    /\ http.web_listen_address[2] \in RefusedPorts
    /\ http.state = "exited" /\ http.exit_code = Some(1)


(***************************************************************************)
(* C23: no family in the list gather() returns has zero instances: every   *)
(* family of the catalogue that has no label instance is left out, every   *)
(* family that has at least one is in the list.                            *)
(***************************************************************************)
\* The families Exporter::new creates, as [field, name].
Catalogue ==
    {[field |-> "up", name |-> "up"], [field |-> "info", name |-> "driver_info"],
     [field |-> "device_count", name |-> "device_count"], [field |-> "device_info", name |-> "info"]}
    \cup Range(MinorVecs)

\* The label instances the Exporter e holds in its field f: a Gauge is one
\* instance without labels.
Instances(e, f) == IF f \in {"up", "device_count"} THEN {<<>>} ELSE DOMAIN e[f]

C23_NoEmptyFamilyReturned ==
    returned =>
        /\ \A i \in DOMAIN mfs : DOMAIN mfs[i].metric # {}
        /\ \A c \in Catalogue : HasFamily(mfs, c.name) <=> Instances(exporter, c.field) # {}
        /\ {c.field : c \in Catalogue} = DOMAIN exporter

\* No scrape has seen a device so far: the 29 device-scoped families have
\* no instance, and the list holds the three scalar families.
C23_Witness ==
    /\ returned
    /\ \A c \in Catalogue : c.name \in device_metrics => Instances(exporter, c.field) = {}
    /\ Len(mfs) = 3


(***************************************************************************)
(* C24: a gather() whose collect fails creates no label instance in any    *)
(* device-scoped family and changes the value of none: the only series it  *)
(* writes are up, device_count and driver_info{version="unavailable"}.     *)
(***************************************************************************)
\* The fields of the Exporter that hold the device-scoped families.
DeviceFields == {c.field : c \in {d \in Catalogue : d.name \in device_metrics}}

\* From Exporter a to Exporter b nothing but up, device_count and the
\* driver_info instance "unavailable" was written.
OnlyScalarsWritten(a, b) ==
    /\ \A f \in DeviceFields : b[f] = a[f]
    /\ DOMAIN b.info \subseteq DOMAIN a.info \cup {<<Unavailable>>}
    /\ \A l \in DOMAIN a.info : l # <<Unavailable>> => (l \in DOMAIN b.info /\ b.info[l] = a.info[l])

C24_FailureWritesNoDeviceSeries ==
    [][~result'.ok => OnlyScalarsWritten(exporter, exporter')]_vars

\* A collection broke off at the second device on an Exporter that holds
\* the series of two devices from earlier scrapes, none of them at 0.
C24_Witness ==
    /\ returned /\ ~result.ok /\ result.val = "temperature"
    /\ Cardinality(DOMAIN exporter.temperatures) = 2
    /\ \A l \in DOMAIN exporter.temperatures : exporter.temperatures[l] > 0
    /\ exporter.up = 0


(***************************************************************************)
(* C25: each gather() calls collect exactly once, before it writes any     *)
(* series: a failed collect is not retried within the gather(), and        *)
(* nothing collects outside a gather() (no polling in the background, no   *)
(* snapshot kept for a later scrape).                                      *)
(***************************************************************************)
\* Request p has called collect_metrics() once if it is in gather() and not
\* at all if it is not, and what it writes is what its own call returned.
CollectedOnce(p) ==
    /\ scrape[p].collects = IF scrape[p].pc = "idle" THEN 0 ELSE 1
    /\ HasResult(p) => SameResult(scrape[p].r, collect_metrics(scrape[p].hw))

\* A step that writes the Exporter is a step of a request to which
\* collect_metrics() has returned.
WritesFollowCollect ==
    exporter' # exporter => \E p \in Requests : HasResult(p) /\ scrape'[p] # scrape[p]

C25_CollectOncePerGather ==
    /\ [](\A p \in Requests : CollectedOnce(p))
    /\ [][WritesFollowCollect]_vars

\* Both scrapes are over, one failed and one found two devices: each
\* collected once.
C25_Witness ==
    /\ \A p \in Requests : scrape[p].pc = "done" /\ scrape[p].collects = 1
    /\ \E p \in Requests : ~scrape[p].r.ok
    /\ \E p \in Requests : scrape[p].r.ok /\ Len(scrape[p].r.val.devices) = 2


(***************************************************************************)
(* C26: label instances are never removed from the registry: for every     *)
(* family, the instances present after a gather() include those present    *)
(* before it, so an instance of a device or of a driver version seen once  *)
(* is in what every later gather() returns.                                *)
(***************************************************************************)
\* Every instance of the families a is an instance of the same family in b.
InstancesKept(a, b) ==
    \A i \in DOMAIN a : \E j \in DOMAIN b : b[j].name = a[i].name /\ DOMAIN a[i].metric \subseteq DOMAIN b[j].metric

FailsAfterFirstDevice ==
    /\ Enumerated
    /\ \E k \in DOMAIN nvml.device :
          /\ k > 1
          /\ \E q \in TryQueries : ~nvml.device[k][q].ok
          /\ \A i \in 1..(k - 1) : \A q \in TryQueries : nvml.device[i][q].ok

C27_PartialCollectionWritesNothing ==
    (returned /\ FailsAfterFirstDevice) =>
        /\ \A f \in DeviceFields : exporter[f] = EmptyVec
        /\ exporter.device_count = 0
        /\ DOMAIN exporter.info = {<<Unavailable>>}

\* The first device was read to its last query, the second does not tell
\* its minor number.
C27_Witness ==
    /\ returned /\ FailsAfterFirstDevice
    /\ <<"device", 0, "running_graphics_processes">> \in DeviceCallsMade
    /\ ~nvml.device[2]["minor_number"].ok
    /\ ~result.ok


(***************************************************************************)
(* C28: a failed fan-speed query on a device does not abort the            *)
(* collection: the device is recorded with fan_speed = 0, collect          *)
(* succeeds, and gather() emits nvidia_fanspeed{minor=<m>} 0 for the       *)
(* device with up = 1.                                                     *)
(***************************************************************************)
\* The enumerated devices whose fan-speed query fails.
FanFailures == {i \in DOMAIN nvml.device : ~nvml.device[i]["fan_speed"].ok}

C28_FanSpeedFailureIsZero ==
    (returned /\ Enumerated /\ ~SomeDeviceFails(TryQueries)) =>
        \A i \in FanFailures :
            /\ result.ok
            /\ result.val.devices[i].fan_speed = 0
            /\ GaugeValue(mfs, "up") = 1
            /\ <<to_string(nvml.device[i]["minor_number"].val)>> \in DOMAIN Metric(mfs, "fanspeed")
            /\ Metric(mfs, "fanspeed")[<<to_string(nvml.device[i]["minor_number"].val)>>] = 0

\* Of two devices the first has no fan to read, the second has one.
C28_Witness ==
    /\ returned /\ Enumerated /\ Len(nvml.device) = 2
    /\ FanFailures = {1}
    /\ result.ok /\ Len(result.val.devices) = 2
    /\ result.val.devices[2].fan_speed > 0
    /\ GaugeValue(mfs, "up") = 1


(***************************************************************************)
(* C29: a gather() whose hardware query never returns never completes and  *)
(* never writes to the registry (there is no timeout and no cancellation), *)
(* and it holds no lock meanwhile: every other gather() whose collect      *)
(* returns still completes.                                                *)
(***************************************************************************)
\* Request p is in a gather() whose collect_metrics() never returns.
Hanging(p) == scrape[p].pc # "idle" /\ Hangs(scrape[p].hw)

\* A hanging call stays in collect_metrics(), with nothing returned.
StaysInCollect == \A p \in Requests : Hanging(p) => (scrape[p].pc = "collect_metrics" /\ scrape[p].out = <<>>)

\* A step that writes the Exporter is not a step of a hanging call.
HangingWritesNothing ==
    exporter' # exporter => \E p \in Requests : ~Hanging(p) /\ scrape'[p] # scrape[p]

C29_HangBlocksOnlyItself ==
    /\ []StaysInCollect
    /\ [][HangingWritesNothing]_vars
    /\ \A p \in Requests : (scrape[p].pc # "idle" /\ ~Hangs(scrape[p].hw)) ~> (scrape[p].pc = "done")

\* One call hangs in the temperature query of the device, the other found
\* the device and returned its families.
C29_Witness ==
    \E p \in Requests :
        /\ Hanging(p) /\ scrape[p].hw.init.ok
        /\ scrape[Other(p)].pc = "done" /\ scrape[Other(p)].r.ok
        /\ Len(scrape[Other(p)].out) > 3

============================================================================
